---- MODULE Spec2Model ----
(***************************************************************************)
(* cargo-llvm: a model of the entry catalog (src/src/entry.rs), the        *)
(* resource resolver and fetcher (src/src/resource.rs) and the build-entry *)
(* pipeline (src/src/commands/build_entry.rs, src/src/main.rs).            *)
(*                                                                         *)
(* Strings are modelled by structured values that are in one-to-one        *)
(* correspondence with the strings they stand for, so that equality of     *)
(* the values is equality of the strings:                                  *)
(*   - an entry name is [k |-> "ver", v |-> <<17,0,2>>]   for "17.0.2",    *)
(*     [k |-> "req", cs |-> <<comparator, ...>>]  for a version            *)
(*     requirement that is not a full version (">=17.0.0, <18.0.0", "17"), *)
(*     [k |-> "plain", id |-> "my-local-llvm"]    for any other string;    *)
(*   - a URL is a record of its scheme-validity, host (and whether the     *)
(*     host is written with upper-case letters), path segments (each a     *)
(*     sequence of tokens) and fragment.                                   *)
(*   - a string given to --builder is the sequence of its characters;      *)
(*   - a path inside an archive is the sequence of its parts between "/".  *)
(* Each component has a specification of its own: SpecCatalog (lookup),    *)
(* SpecResource (from_url), Spec (the pipeline), SpecConfigure, SpecBuilder*)
(* (set_builder), SpecBuild (build) and SpecArchive (download of a Tar).   *)
(***************************************************************************)
EXTENDS Integers, Sequences, FiniteSets, TLC

VARIABLES
    \* ---- entry catalog (entry.rs: load_entries / load_entry)
    toml,       \* the user's entry.toml: whether it exists, and its section names
    entries,    \* the list load_entries() produced in the last lookup
    query,      \* the argument of the last load_entry call
    found,      \* the result of the last load_entry call
    \* ---- resource resolver (resource.rs: Resource::from_url)
    rurl,       \* the argument of from_url
    rpc,        \* where from_url stands: "call", the probe's steps, "returned"
    rres,       \* what from_url returned
    rprocs,     \* the external processes from_url has run, with their outcome
    tmp,        \* the probe's scratch directory: "none", "exists", "deleted"
    \* ---- build-entry pipeline (build_entry.rs, main.rs, entry.rs: impl Entry)
    entry,      \* the Entry load_entry returned, with its (mutable) setting
    args,       \* the command line options of this invocation
    pc,         \* the step the invocation is about to take
    trace,      \* the Entry methods called so far in this invocation, with results
    procs,      \* the external processes started so far in this invocation
    fs,         \* the entry's source directory, its build subdirectory, the tar cache
    cmds,       \* the cmake command lines build() constructed last
    \* ---- Entry::configure run on its own
    tools,      \* whether which("ccache") and which("lld") succeed
    confRuns,   \* the argument lists successive runs of configure constructed
    \* ---- Resource::download of a Tar resource (resource.rs:162-249, 267-302)
    aurl,       \* the url of the Tar resource
    remote,     \* the archive the server holds for the url
    cache,      \* the files of <cache>/cargo-llvm/cache
    http,       \* the HTTP requests made so far, with status and body
    apc,        \* where download stands
    ares,       \* what the last download returned, or that it panicked
    unpacked,   \* the archive entries this download has unpacked, with targets
    acalls      \* the number of downloads started

catalogVars == <<toml, entries, query, found>>

resourceVars == <<rurl, rpc, rres, rprocs, tmp>>

pipelineVars == <<entry, args, pc, trace, procs, fs, cmds>>

configureVars == <<tools, confRuns>>

archiveVars == <<aurl, remote, cache, http, apc, ares, unpacked, acalls>>

vars == <<catalogVars, resourceVars, pipelineVars, configureVars, archiveVars>>

\* the variables a component leaves alone
notCatalog == <<resourceVars, pipelineVars, configureVars, archiveVars>>

notResource == <<catalogVars, pipelineVars, configureVars, archiveVars>>

notPipeline == <<catalogVars, resourceVars, configureVars, archiveVars>>

notArchive == <<catalogVars, resourceVars, pipelineVars, configureVars>>

-----------------------------------------------------------------------------
(* semver::Version and semver::VersionReq, as used at entry.rs:250, 291-292 *)

\* Option<Version>::None
NoVersion == <<>>

\* Version::parse(name).ok(): only a full major.minor.patch string parses
VersionParse(name) == IF name.k = "ver" THEN name.v ELSE NoVersion

\* a comparator is [op, parts] with parts = <<major>>, <<major, minor>> or
\* <<major, minor, patch>> (minor and patch are Option<u64> in semver)
MatchesExact(c, v) ==
    /\ v[1] = c.parts[1]
    /\ (Len(c.parts) >= 2 => v[2] = c.parts[2])
    /\ (Len(c.parts) >= 3 => v[3] = c.parts[3])

MatchesGreater(c, v) ==
    IF v[1] # c.parts[1] THEN v[1] > c.parts[1]
    ELSE IF Len(c.parts) < 2 THEN FALSE
    ELSE IF v[2] # c.parts[2] THEN v[2] > c.parts[2]
    ELSE IF Len(c.parts) < 3 THEN FALSE
    ELSE IF v[3] # c.parts[3] THEN v[3] > c.parts[3]
    ELSE FALSE

MatchesLess(c, v) ==
    IF v[1] # c.parts[1] THEN v[1] < c.parts[1]
    ELSE IF Len(c.parts) < 2 THEN FALSE
    ELSE IF v[2] # c.parts[2] THEN v[2] < c.parts[2]
    ELSE IF Len(c.parts) < 3 THEN FALSE
    ELSE IF v[3] # c.parts[3] THEN v[3] < c.parts[3]
    ELSE FALSE

MatchesTilde(c, v) ==
    IF v[1] # c.parts[1] THEN FALSE
    ELSE IF Len(c.parts) >= 2 /\ v[2] # c.parts[2] THEN FALSE
    ELSE IF Len(c.parts) >= 3 /\ v[3] # c.parts[3] THEN v[3] > c.parts[3]
    ELSE TRUE

MatchesCaret(c, v) ==
    IF v[1] # c.parts[1] THEN FALSE
    ELSE IF Len(c.parts) < 2 THEN TRUE
    ELSE IF Len(c.parts) < 3
         THEN (IF c.parts[1] > 0 THEN v[2] >= c.parts[2] ELSE v[2] = c.parts[2])
    ELSE IF c.parts[1] > 0
         THEN (IF v[2] # c.parts[2] THEN v[2] > c.parts[2]
               ELSE IF v[3] # c.parts[3] THEN v[3] > c.parts[3]
               ELSE TRUE)
    ELSE IF c.parts[2] > 0
         THEN (IF v[2] # c.parts[2] THEN FALSE
               ELSE IF v[3] # c.parts[3] THEN v[3] > c.parts[3]
               ELSE TRUE)
    ELSE v[2] = c.parts[2] /\ v[3] = c.parts[3]

MatchesComparator(c, v) ==
    CASE c.op = "="  -> MatchesExact(c, v)
      [] c.op = ">"  -> MatchesGreater(c, v)
      [] c.op = ">=" -> MatchesExact(c, v) \/ MatchesGreater(c, v)
      [] c.op = "<"  -> MatchesLess(c, v)
      [] c.op = "<=" -> MatchesExact(c, v) \/ MatchesLess(c, v)
      [] c.op = "~"  -> MatchesTilde(c, v)
      [] c.op = "^"  -> MatchesCaret(c, v)

\* VersionReq::parse(name): a bare full version "a.b.c" is the caret
\* requirement ^a.b.c; a plain string does not parse
ReqParses(name) == name.k \in {"ver", "req"}

ReqParse(name) ==
    IF name.k = "ver" THEN << [op |-> "^", parts |-> name.v] >> ELSE name.cs

\* VersionReq::matches: every comparator matches
ReqMatches(cs, v) == \A i \in 1..Len(cs) : MatchesComparator(cs[i], v)

-----------------------------------------------------------------------------
(* URLs, as the url crate parses them (resource.rs:88, 305-331)             *)

\* Option::None / Option::Some(x)
None == <<>>

Some(x) == <<x>>

\* the text of a version, as format!("{}", version) prints it
VerStr(v) == ToString(v[1]) \o "." \o ToString(v[2]) \o "." \o ToString(v[3])

\* "https://<host>/<seg>/<seg>...#<frag>"; segs = <<>> is a URL with no path
\* at all ("https://github.com"), segs = << <<>> >> is the path "/"
HttpUrl(host, segs, frag) ==
    [valid |-> TRUE, base |-> TRUE, hostUpper |-> FALSE, host |-> host,
     segs |-> segs, frag |-> frag]

\* a string Url::parse rejects
MalformedUrl ==
    [valid |-> FALSE, base |-> FALSE, hostUpper |-> FALSE, host |-> "",
     segs |-> << <<"not a url">> >>, frag |-> None]

\* a cannot-be-a-base URL ("mailto:llvm.tar.gz"): it parses, has no host and
\* no path segments; segs holds its opaque path
OpaqueUrl(path) ==
    [valid |-> TRUE, base |-> FALSE, hostUpper |-> FALSE, host |-> "",
     segs |-> <<path>>, frag |-> None]

\* Url::path_segments(): None for a cannot-be-a-base URL; the parser gives a
\* URL with a host the path "/" when none is written
PathSegments(u) ==
    IF ~u.base THEN None
    ELSE IF u.segs = <<>> THEN Some(<< <<>> >>)
    ELSE Some(u.segs)

\* Url::host_str(): the parser lower-cases the host
HostStr(u) == IF u.base THEN Some(u.host) ELSE None

\* Url::fragment()
Fragment(u) == u.frag

\* str::ends_with on a string held as a sequence of tokens
EndsWith(s, suffix) ==
    /\ Len(s) >= Len(suffix)
    /\ SubSeq(s, Len(s) - Len(suffix) + 1, Len(s)) = suffix

\* url.path().starts_with("/" ++ word)
PathStartsWith(u, word) ==
    /\ u.base
    /\ u.segs # <<>>
    /\ u.segs[1] # <<>>
    /\ u.segs[1][1] = word

\* String::from(url): the serialization of the parsed URL: host in lower
\* case, an absent path written "/"
Serialize(u) ==
    [u EXCEPT !.hostUpper = FALSE,
              !.segs = IF u.base /\ u.segs = <<>> THEN << <<>> >> ELSE u.segs]

\* get_filename_from_url: Err(InvalidUrl) unless the URL parses and has path
\* segments; else the last segment
GetFilenameFromUrl(u) ==
    IF ~u.valid THEN [ok |-> FALSE, name |-> <<>>]
    ELSE IF PathSegments(u) = None THEN [ok |-> FALSE, name |-> <<>>]
    ELSE LET seg == PathSegments(u)[1]
         IN [ok |-> TRUE, name |-> seg[Len(seg)]]

\* get_branch_from_url (the URL parses wherever it is called)
GetBranchFromUrl(u) == Fragment(u)

\* strip_branch_from_url that removes the fragment from the text as given
StripBranchTextually(u) == [u EXCEPT !.frag = None]

\* strip_branch_from_url: parse, set_fragment(None), serialize
StripBranchFromUrl(u) == [Serialize(u) EXCEPT !.frag = None]

-----------------------------------------------------------------------------
(* Entries (entry.rs)                                                       *)

VerName(v) == [k |-> "ver", v |-> v]

PlainName(id) == [k |-> "plain", id |-> id]

ReqName(cs) == [k |-> "req", cs |-> cs]

Cmp(op, parts) == [op |-> op, parts |-> parts]

\* EntrySetting::default(): serde and Default give Platform, Release, no
\* target and no option
DefaultSetting ==
    [url |-> None, path |-> None, target |-> <<>>, generator |-> "Platform",
     build_type |-> "Release", option |-> {}]

UrlSetting(u) == [DefaultSetting EXCEPT !.url = Some(u)]

PathSetting(p) == [DefaultSetting EXCEPT !.path = Some(p)]

\* parse_setting without the test for both fields: `path` wins
ParseSettingPathWins(name, version, setting) ==
    IF setting.path # None
    THEN [ok |-> TRUE,
          entry |-> [kind |-> "Local", name |-> name, version |-> version,
                     url |-> None, path |-> setting.path, setting |-> setting]]
    ELSE IF setting.url # None
    THEN [ok |-> TRUE,
          entry |-> [kind |-> "Remote", name |-> name, version |-> version,
                     url |-> setting.url, path |-> None, setting |-> setting]]
    ELSE [ok |-> FALSE, err |-> "InvalidEntry: Path nor URL are not found"]

\* Entry::parse_setting
ParseSetting(name, version, setting) ==
    IF setting.path # None /\ setting.url # None
    THEN [ok |-> FALSE, err |-> "InvalidEntry: One of Path or URL are allowed"]
    ELSE IF setting.path # None
    THEN [ok |-> TRUE,
          entry |-> [kind |-> "Local", name |-> name, version |-> version,
                     url |-> None, path |-> setting.path, setting |-> setting]]
    ELSE IF setting.url # None
    THEN [ok |-> TRUE,
          entry |-> [kind |-> "Remote", name |-> name, version |-> version,
                     url |-> setting.url, path |-> None, setting |-> setting]]
    ELSE [ok |-> FALSE, err |-> "InvalidEntry: Path nor URL are not found"]

OfficialUrl(v) ==
    HttpUrl("github.com",
            << <<"llvm">>, <<"llvm-project">>, <<"archive">>, <<"refs">>,
               <<"tags">>, <<"llvmorg-", VerStr(v), ".tar", ".gz">> >>,
            None)

\* Entry::official
Official(v) ==
    ParseSetting(VerName(v), v, UrlSetting(OfficialUrl(v))).entry

\* official_releases with 17.0.0 listed before 17.0.2
OfficialVersionsMisordered ==
    << <<18, 1, 0>>, <<17, 0, 0>>, <<17, 0, 2>>, <<16, 0, 6>>, <<16, 0, 0>>,
       <<15, 0, 7>>, <<15, 0, 0>>, <<14, 0, 6>>, <<14, 0, 0>>, <<13, 0, 0>>,
       <<12, 0, 1>>, <<12, 0, 0>>, <<11, 1, 0>>, <<11, 0, 0>>, <<10, 0, 1>>,
       <<10, 0, 0>> >>

\* official_releases
OfficialVersions ==
    << <<18, 1, 0>>, <<17, 0, 2>>, <<17, 0, 0>>, <<16, 0, 6>>, <<16, 0, 0>>,
       <<15, 0, 7>>, <<15, 0, 0>>, <<14, 0, 6>>, <<14, 0, 0>>, <<13, 0, 0>>,
       <<12, 0, 1>>, <<12, 0, 0>>, <<11, 1, 0>>, <<11, 0, 0>>, <<10, 0, 1>>,
       <<10, 0, 0>> >>

OfficialReleases == [i \in 1..Len(OfficialVersions) |-> Official(OfficialVersions[i])]


-----------------------------------------------------------------------------
(* The state before anything has run. Each specification below starts one   *)
(* component from its inputs and leaves the others in this state.           *)

CatalogStart ==
    /\ entries = <<>>
    /\ query = PlainName("")
    /\ found = [tag |-> "none"]

CatalogIdle == toml = [present |-> FALSE, sections |-> {}] /\ CatalogStart

ResourceStart ==
    /\ rpc = "call"
    /\ rres = [tag |-> "none"]
    /\ rprocs = <<>>
    /\ tmp = "none"

ResourceIdle == rurl = MalformedUrl /\ ResourceStart

\* no option given on the command line
NoArgs ==
    [update |-> FALSE, clean |-> FALSE, discard |-> FALSE, skip |-> FALSE,
     builder |-> None, nproc |-> None, build_type |-> None,
     via |-> "build_entry_command"]

\* nothing on disk: no source directory, no build directory, no cached file
EmptyDisk == [exists |-> FALSE, by |-> "none", build |-> FALSE, cached |-> FALSE]

NoCmds == [configure |-> <<>>, build |-> <<>>]

PipelineStart ==
    /\ args = NoArgs
    /\ pc = "idle"
    /\ trace = <<>>
    /\ procs = <<>>
    /\ cmds = NoCmds

PipelineIdle == entry = Official(<<18, 1, 0>>) /\ fs = EmptyDisk /\ PipelineStart

ConfigureIdle == tools = [ccache |-> FALSE, lld |-> FALSE] /\ confRuns = <<>>

\* no download started: nothing in the cache, no request made
ArchiveStart ==
    /\ cache = {}
    /\ http = <<>>
    /\ apc = "idle"
    /\ ares = [tag |-> "none"]
    /\ unpacked = <<>>
    /\ acalls = 0

ArchiveIdle ==
    /\ aurl = OfficialUrl(<<18, 1, 0>>)
    /\ remote = [format |-> "gz", entries |-> <<>>]
    /\ ArchiveStart

-----------------------------------------------------------------------------
(* Resource::from_url (resource.rs:59-160)                                  *)

\* Resource::Tar / Svn / Git; branch is None for Tar and Svn, which have no
\* such field
Tar(u) == [kind |-> "Tar", url |-> u, branch |-> None]

Svn(u) == [kind |-> "Svn", url |-> u, branch |-> None]

Git(u) == [kind |-> "Git", url |-> StripBranchFromUrl(u), branch |-> GetBranchFromUrl(u)]

Returned(r) == [tag |-> "Ok", res |-> r]

Failed(e) == [tag |-> "Err", err |-> e]

\* resource.rs:62
ArchiveExts ==
    { <<".tar", ".gz">>, <<".tar", ".xz">>, <<".tar", ".bz2">>, <<".tar", ".Z">>,
      <<".tgz">>, <<".taz">> }

\* resource.rs:91
GitServices == { "github.com", "gitlab.com" }

\* from_url with the host tests made before the file name tests
FromUrlRulesHostFirst(u) ==
    LET fn == GetFilenameFromUrl(u)
    IN IF u.valid /\ \E service \in GitServices : HostStr(u) = Some(service)
       THEN Returned(Git(u))
       ELSE IF fn.ok /\ \E ext \in ArchiveExts : EndsWith(fn.name, ext)
       THEN Returned(Tar(u))
       ELSE IF fn.ok /\ EndsWith(fn.name, <<"trunk">>) THEN Returned(Svn(u))
       ELSE IF fn.ok /\ EndsWith(fn.name, <<".git">>) THEN Returned(Git(u))
       ELSE IF ~u.valid THEN Failed("InvalidUrl")
       ELSE IF HostStr(u) = Some("llvm.org") /\ PathStartsWith(u, "svn")
       THEN Returned(Svn(u))
       ELSE IF HostStr(u) = Some("llvm.org") /\ PathStartsWith(u, "git")
       THEN Returned(Git(u))
       ELSE [tag |-> "Probe"]

\* from_url up to the probe (resource.rs:60-115): what it returns, or
\* [tag |-> "Probe"] when it falls through to the probe
FromUrlRules(u) ==
    LET fn == GetFilenameFromUrl(u)
    IN IF fn.ok /\ \E ext \in ArchiveExts : EndsWith(fn.name, ext)
       THEN Returned(Tar(u))
       ELSE IF fn.ok /\ EndsWith(fn.name, <<"trunk">>) THEN Returned(Svn(u))
       ELSE IF fn.ok /\ EndsWith(fn.name, <<".git">>) THEN Returned(Git(u))
       ELSE IF ~u.valid THEN Failed("InvalidUrl")
       ELSE IF \E service \in GitServices : HostStr(u) = Some(service)
       THEN Returned(Git(u))
       ELSE IF HostStr(u) = Some("llvm.org") /\ PathStartsWith(u, "svn")
       THEN Returned(Svn(u))
       ELSE IF HostStr(u) = Some("llvm.org") /\ PathStartsWith(u, "git")
       THEN Returned(Git(u))
       ELSE [tag |-> "Probe"]

\* a TempDir that is kept on disk when its owner goes out of scope
TempDirKept(dir) == dir

\* Drop for TempDir at the end of from_url's scope, on `?` and on return
TempDirDrop(dir) == IF dir = "exists" THEN "deleted" ELSE dir

\* bounds of the URL inputs
MaxDirs == 1

Hosts == { "github.com", "gitlab.com", "llvm.org", "example.com" }

Dirs == { <<"svn">>, <<"git">>, <<"llvm">> }

FileNames ==
    { <<"llvm">> \o ext : ext \in ArchiveExts }
    \cup { <<"llvm">>, <<"llvm", ".gz">>, <<"trunk">>, <<"llvm", "trunk">>,
           <<"llvm", ".git">>, <<"trunk", ".git">>, <<".git", "llvm">>,
           <<"svn">>, <<"git">>, <<>> }

Paths ==
    { <<>> } \cup
    { d \o <<f>> : d \in UNION { [1..n -> Dirs] : n \in 0..MaxDirs }, f \in FileNames }

Frags == { None, Some(""), Some("feature") }

UrlInputs ==
    { [HttpUrl(h, p, f) EXCEPT !.hostUpper = up] :
        h \in Hosts, p \in Paths, f \in Frags, up \in BOOLEAN }
    \cup { OfficialUrl(OfficialVersions[i]) : i \in 1..Len(OfficialVersions) }
    \cup { MalformedUrl, OpaqueUrl(<<"llvm", ".tar", ".gz">>), OpaqueUrl(<<"llvm">>) }

\* resource.rs:60-128: the rules, and TempDir::new() when none applies
FromUrlCall ==
    /\ rpc = "call"
    /\ LET r == FromUrlRules(rurl)
       IN IF r.tag # "Probe"
          THEN rres' = r /\ rpc' = "returned" /\ tmp' = tmp
          ELSE \E created \in BOOLEAN :
                  IF created
                  THEN rres' = rres /\ rpc' = "git init" /\ tmp' = "exists"
                  ELSE rres' = Failed("Io: /tmp") /\ rpc' = "returned" /\ tmp' = tmp
    /\ UNCHANGED <<rurl, rprocs, notResource>>

\* resource.rs:129-133: git init, check_run()?
GitInit ==
    /\ rpc = "git init"
    /\ \E ok \in BOOLEAN :
          /\ rprocs' = Append(rprocs, [cmd |-> "git init", ok |-> ok])
          /\ IF ok
             THEN rpc' = "git remote add" /\ UNCHANGED <<rres, tmp>>
             ELSE rpc' = "returned" /\ rres' = Failed("CommandError")
                  /\ tmp' = TempDirDrop(tmp)
    /\ UNCHANGED <<rurl, notResource>>

\* resource.rs:134-139: git remote add origin <url>, check_run()?
GitRemoteAdd ==
    /\ rpc = "git remote add"
    /\ \E ok \in BOOLEAN :
          /\ rprocs' = Append(rprocs, [cmd |-> "git remote add", ok |-> ok])
          /\ IF ok
             THEN rpc' = "git ls-remote" /\ UNCHANGED <<rres, tmp>>
             ELSE rpc' = "returned" /\ rres' = Failed("CommandError")
                  /\ tmp' = TempDirDrop(tmp)
    /\ UNCHANGED <<rurl, notResource>>

\* resource.rs:140-159: git ls-remote decides between Git and Svn
GitLsRemote ==
    /\ rpc = "git ls-remote"
    /\ \E ok \in BOOLEAN :
          /\ rprocs' = Append(rprocs, [cmd |-> "git ls-remote", ok |-> ok])
          /\ rres' = IF ok THEN Returned(Git(rurl)) ELSE Returned(Svn(rurl))
    /\ rpc' = "returned"
    /\ tmp' = TempDirDrop(tmp)
    /\ UNCHANGED <<rurl, notResource>>

ResourceInit ==
    /\ rurl \in UrlInputs
    /\ ResourceStart
    /\ CatalogIdle /\ PipelineIdle /\ ConfigureIdle /\ ArchiveIdle

ResourceNext == FromUrlCall \/ GitInit \/ GitRemoteAdd \/ GitLsRemote

SpecResource == ResourceInit /\ [][ResourceNext]_vars

\* from_url as one step, given how the probe (if reached) goes
ProbeOutcomes == { "no tempdir", "init fails", "remote add fails", "listed", "not listed" }

FromUrl(u, probe) ==
    LET r == FromUrlRules(u)
    IN IF r.tag # "Probe" THEN r
       ELSE CASE probe = "no tempdir" -> Failed("Io: /tmp")
              [] probe = "init fails" -> Failed("CommandError")
              [] probe = "remote add fails" -> Failed("CommandError")
              [] probe = "listed" -> Returned(Git(u))
              [] probe = "not listed" -> Returned(Svn(u))

-----------------------------------------------------------------------------
(* The user's entry.toml and the catalog lookup (entry.rs:246-302)          *)

\* bounds of the catalog model
MaxUserEntries == 2

MirrorUrl == HttpUrl("github.com", << <<"llvm-mirror">>, <<"llvm">> >>, None)

\* The sections a user's entry.toml may hold: section name and its
\* EntrySetting. A TOML table has each key once, so names are unique.
UserSections ==
    { [name |-> PlainName("my-local-llvm"),
       setting |-> PathSetting("/path/to/your/src")],
      [name |-> PlainName("llvm-mirror"),
       setting |-> UrlSetting(MirrorUrl)],
      [name |-> VerName(<<17, 0, 0>>),
       setting |-> UrlSetting(MirrorUrl)],
      [name |-> VerName(<<17, 5, 0>>),
       setting |-> PathSetting("/src/llvm-17.5")],
      [name |-> VerName(<<19, 0, 0>>),
       setting |-> UrlSetting(MirrorUrl)],
      [name |-> ReqName(<<Cmp("^", <<17>>)>>),
       setting |-> PathSetting("/src/llvm-17")],
      [name |-> PlainName("both"),
       setting |-> [DefaultSetting EXCEPT !.url = Some(MirrorUrl), !.path = Some("/src/both")]],
      [name |-> PlainName("neither"),
       setting |-> DefaultSetting] }

UserNames == { s.name : s \in UserSections }

SettingOf(name) == (CHOOSE s \in UserSections : s.name = name).setting

\* the contents entry.toml may have: absent, or at most MaxUserEntries sections
Tomls ==
    { [present |-> FALSE, sections |-> {}] } \cup
    { [present |-> TRUE, sections |-> S] : S \in { T \in SUBSET UserNames : Cardinality(T) <= MaxUserEntries } }

\* the orders in which HashMap::into_iter may yield the sections
IterOrders(S) ==
    { o \in [1..Cardinality(S) -> S] : \A i, j \in 1..Cardinality(S) : o[i] = o[j] => i = j }

\* load_entry_toml: parse every section in iteration order; collect() stops
\* at the first Err
RECURSIVE LoadEntryToml(_, _, _)
LoadEntryToml(order, i, acc) ==
    IF i > Len(order) THEN [ok |-> TRUE, entries |-> acc]
    ELSE LET r == ParseSetting(order[i], VersionParse(order[i]), SettingOf(order[i]))
         IN IF r.ok THEN LoadEntryToml(order, i + 1, Append(acc, r.entry))
            ELSE [ok |-> FALSE, err |-> r.err]

\* load_entries: read entry.toml (an I/O error when it is absent), then
\* append the official releases
LoadEntries(doc, order) ==
    IF ~doc.present THEN [ok |-> FALSE, err |-> "Io: entry.toml not found"]
    ELSE LET user == LoadEntryToml(order, 1, <<>>)
         IN IF user.ok THEN [ok |-> TRUE, entries |-> user.entries \o OfficialReleases]
            ELSE user

\* the loop of load_entry: per entry, the name test, then the version test
RECURSIVE LoadEntryLoop(_, _, _)
LoadEntryLoop(es, i, name) ==
    IF i > Len(es)
    THEN [tag |-> "Err", err |-> "InvalidEntry: Entry not found"]
    ELSE IF es[i].name = name
    THEN [tag |-> "Ok", entry |-> es[i]]
    ELSE IF es[i].version # NoVersion /\ ReqParses(name)
            /\ ReqMatches(ReqParse(name), es[i].version)
    THEN [tag |-> "Ok", entry |-> es[i]]
    ELSE LoadEntryLoop(es, i + 1, name)

\* the names asked for
ReqQueries ==
    { ReqName(<<Cmp(op, parts)>>) :
        op \in {"=", ">", ">=", "<", "<=", "~"},
        parts \in {<<17>>, <<17, 0>>, <<17, 0, 0>>, <<17, 0, 2>>, <<18>>, <<10, 0, 0>>, <<19>>} }
    \cup { ReqName(<<Cmp("^", parts)>>) : parts \in {<<17>>, <<17, 0>>, <<18>>, <<9>>} }
    \cup { ReqName(<<Cmp(">=", <<17, 0, 0>>), Cmp("<", <<18, 0, 0>>)>>),
           ReqName(<<Cmp(">", <<15>>), Cmp("<=", <<17, 0, 0>>)>>),
           ReqName(<<>>) }

Queries ==
    UserNames
    \cup { VerName(OfficialVersions[i]) : i \in 1..Len(OfficialVersions) }
    \cup { VerName(<<17, 0, 1>>), VerName(<<9, 0, 0>>), PlainName("nope") }
    \cup ReqQueries

CatalogInit ==
    /\ toml \in Tomls
    /\ CatalogStart
    /\ ResourceIdle /\ PipelineIdle /\ ConfigureIdle /\ ArchiveIdle

\* load_entry(name), whole: load_entries()? then the loop. A process looks
\* one name up (build_entry.rs:18, main.rs:182).
LoadEntry(name) ==
    /\ found.tag = "none"
    /\ \E order \in IterOrders(toml.sections) :
          LET le == LoadEntries(toml, order)
          IN /\ query' = name
             /\ entries' = IF le.ok THEN le.entries ELSE <<>>
             /\ found' = IF le.ok THEN LoadEntryLoop(le.entries, 1, name)
                         ELSE [tag |-> "Err", err |-> le.err]
             /\ UNCHANGED <<toml, notCatalog>>

Lookup == \E name \in Queries : LoadEntry(name)

CatalogNext == Lookup

SpecCatalog == CatalogInit /\ [][CatalogNext]_vars

-----------------------------------------------------------------------------
(* Generators, build types and the cmake command lines (entry.rs:126-196,   *)
(* 451-518)                                                                 *)

\* a string given to --builder is the sequence of its characters
UpperCase ==
    << "A", "B", "C", "D", "E", "F", "G", "H", "I", "J", "K", "L", "M",
       "N", "O", "P", "Q", "R", "S", "T", "U", "V", "W", "X", "Y", "Z" >>

LowerCase ==
    << "a", "b", "c", "d", "e", "f", "g", "h", "i", "j", "k", "l", "m",
       "n", "o", "p", "q", "r", "s", "t", "u", "v", "w", "x", "y", "z" >>

\* u8::to_ascii_lowercase: 'A'..='Z' to 'a'..='z', every other character as is
CharToAsciiLowercase(c) ==
    IF \E i \in 1..Len(UpperCase) : UpperCase[i] = c
    THEN LowerCase[CHOOSE i \in 1..Len(UpperCase) : UpperCase[i] = c]
    ELSE c

\* to_ascii_lowercase that changes nothing
ToAsciiLowercaseIdentity(str) == str

\* str::to_ascii_lowercase
ToAsciiLowercase(str) == [i \in 1..Len(str) |-> CharToAsciiLowercase(str[i])]

\* CMakeGenerator::from_str
GeneratorFromStr(str) ==
    LET l == ToAsciiLowercase(str)
    IN CASE l = <<"m", "a", "k", "e", "f", "i", "l", "e">> -> [ok |-> TRUE, generator |-> "Makefile"]
         [] l = <<"n", "i", "n", "j", "a">> -> [ok |-> TRUE, generator |-> "Ninja"]
         [] l \in {<<"v", "i", "s", "u", "a", "l", "s", "t", "u", "d", "i", "o">>,
                   <<"v", "s">>}
                -> [ok |-> TRUE, generator |-> "VisualStudio"]
         [] OTHER -> [ok |-> FALSE, generator |-> "UnsupportedGenerator"]

\* Entry::set_builder: from_str(generator)? and then the assignment
EntrySetBuilder(e, str) ==
    LET g == GeneratorFromStr(str)
    IN IF g.ok
       THEN [ok |-> TRUE, why |-> "", entry |-> [e EXCEPT !.setting.generator = g.generator]]
       ELSE [ok |-> FALSE, why |-> "UnsupportedGenerator", entry |-> e]

\* CMakeGenerator::option
GeneratorOption(g) ==
    CASE g = "Platform" -> <<>>
      [] g = "Makefile" -> <<"-G", "Unix Makefiles">>
      [] g = "Ninja" -> <<"-G", "Ninja">>
      [] g = "VisualStudio" -> <<"-G", "Visual Studio 15 2017">>
      [] g = "VisualStudioWin64" -> <<"-G", "Visual Studio 15 2017 Win64", "-Thost=x64">>

\* build_option that gives every generator the parallelism flag
BuildOptionJobsForAll(g, nproc, build_type) == <<"--", "-j", ToString(nproc)>>

\* CMakeGenerator::build_option
BuildOption(g, nproc, build_type) ==
    CASE g \in {"VisualStudioWin64", "VisualStudio"} -> <<"--config", build_type>>
      [] g = "Platform" -> <<>>
      [] g \in {"Makefile", "Ninja"} -> <<"--", "-j", ToString(nproc)>>

\* the text of an entry name
NameStr(name) ==
    CASE name.k = "ver" -> VerStr(name.v)
      [] name.k = "plain" -> name.id
      [] OTHER -> "<requirement>"

\* Entry::src_dir
SrcDir(e) ==
    IF e.kind = "Remote" THEN "<cache>/cargo-llvm/" \o NameStr(e.name) ELSE e.path[1]

\* Entry::prefix; data_dir().join(prefix) is the prefix again, as it is absolute
Prefix(e) == "<data>/cargo-llvm/" \o NameStr(e.name)

\* itertools::join
RECURSIVE Join(_, _)
Join(strs, sep) ==
    IF strs = <<>> THEN ""
    ELSE IF Len(strs) = 1 THEN strs[1]
    ELSE strs[1] \o sep \o Join(Tail(strs), sep)

\* the options a user's setting may hold
OptionPairs == { [k |-> "LLVM_ENABLE_ASSERTIONS", v |-> "ON"],
                 [k |-> "LLVM_ENABLE_RTTI", v |-> "ON"],
                 [k |-> "LLVM_BUILD_DOCS", v |-> "OFF"] }

\* the argument list configure() constructs (entry.rs:477-508); `order` is
\* the order in which `for (k, v) in &setting.option` yields the HashMap
ConfigureOpts(e, t, order) ==
    GeneratorOption(e.setting.generator)
    \o << SrcDir(e) >>
    \o << "-DCMAKE_INSTALL_PREFIX=" \o Prefix(e) >>
    \o << "-DCMAKE_BUILD_TYPE=" \o e.setting.build_type >>
    \o (IF t.ccache THEN << "-DLLVM_CCACHE_BUILD=ON" >> ELSE <<>>)
    \o (IF t.lld THEN << "-DLLVM_ENABLE_LLD=ON" >> ELSE <<>>)
    \o (IF e.setting.target # <<>>
        THEN << "-DLLVM_TARGETS_TO_BUILD=" \o Join(e.setting.target, ";") >>
        ELSE <<>>)
    \o [i \in 1..Len(order) |-> "-D" \o order[i].k \o "=" \o order[i].v]

\* the argument list of the `cmake --build` command (entry.rs:453-467)
BuildArgs(e, nproc) ==
    << "--build", SrcDir(e) \o "/build", "--target", "install" >>
    \o BuildOption(e.setting.generator, nproc, e.setting.build_type)

Toolsets == [ccache : BOOLEAN, lld : BOOLEAN]

-----------------------------------------------------------------------------
(* Resource::download and Resource::update (resource.rs:162-264), on the    *)
(* entry's source directory. `net` is whether the remote answers.           *)

NonEmpty(d) == d.by # "none" \/ d.build

\* fs::create_dir_all(dest) when dest does not exist
CreateDirAll(d) == [d EXCEPT !.exists = TRUE]

Done(d, ps) == [ok |-> TRUE, why |-> "", fs |-> d, procs |-> ps]

Error(why, d, ps) == [ok |-> FALSE, why |-> why, fs |-> d, procs |-> ps]

\* Resource::download. svn co brings an existing directory up to date; git
\* clone refuses a destination that exists and is not empty; the archive is
\* taken from the cache or fetched, then unpacked entry by entry.
Download(r, d, net) ==
    LET d1 == IF ~d.exists THEN CreateDirAll(d) ELSE d
    IN CASE r.kind = "Svn" ->
              IF net THEN Done([d1 EXCEPT !.by = "Svn"], <<"svn co">>)
              ELSE Error("CommandError: svn co: remote unreachable", d1, <<"svn co">>)
         [] r.kind = "Git" ->
              IF NonEmpty(d1)
              THEN Error("CommandError: git clone: destination exists and is not empty",
                         d1, <<"git clone">>)
              ELSE IF net THEN Done([d1 EXCEPT !.by = "Git"], <<"git clone">>)
              ELSE Error("CommandError: git clone: remote unreachable", d1, <<"git clone">>)
         [] r.kind = "Tar" ->
              IF ~d1.cached /\ ~net
              THEN Error("HttpError", d1, <<>>)
              ELSE Done([d1 EXCEPT !.cached = TRUE,
                                   !.by = IF d1.by = "none" THEN "Tar" ELSE d1.by], <<>>)

\* Resource::update: svn update / git pull in the source directory; they
\* need a working copy of their own kind there
UpdateResource(r, d, net) ==
    CASE r.kind = "Svn" ->
            IF d.exists /\ d.by = "Svn" /\ net THEN Done(d, <<"svn update">>)
            ELSE Error("CommandError: svn update", d, <<"svn update">>)
      [] r.kind = "Git" ->
            IF d.exists /\ d.by = "Git" /\ net THEN Done(d, <<"git pull">>)
            ELSE Error("CommandError: git pull", d, <<"git pull">>)
      [] r.kind = "Tar" -> Done(d, <<>>)

\* the processes from_url itself starts, given how the probe goes
ProbeProcs(u, probe) ==
    IF FromUrlRules(u).tag # "Probe" THEN <<>>
    ELSE CASE probe = "no tempdir" -> <<>>
           [] probe = "init fails" -> <<"git init">>
           [] probe = "remote add fails" -> <<"git init", "git remote add">>
           [] OTHER -> <<"git init", "git remote add", "git ls-remote">>

-----------------------------------------------------------------------------
(* The build-entry pipeline (build_entry.rs:5-43, main.rs:173-201)          *)

Steps ==
    << "set_builder", "set_build_type", "clean_cache_dir", "checkout", "update",
       "clean_build_dir", "build" >>

StepIndex(step) == CHOOSE i \in 1..Len(Steps) : Steps[i] = step

\* the statement after a step
NextStep(step) ==
    IF StepIndex(step) = Len(Steps) THEN "done" ELSE Steps[StepIndex(step) + 1]

\* a step returned Ok
Pass(step) ==
    /\ trace' = Append(trace, [step |-> step, ok |-> TRUE, why |-> ""])
    /\ pc' = NextStep(step)

\* a step whose error is dropped instead of returned
FailAndGoOn(step, why) ==
    /\ trace' = Append(trace, [step |-> step, ok |-> FALSE, why |-> why])
    /\ pc' = NextStep(step)

\* a step returned Err: `?` returns it (build_entry.rs), unwrap() panics
\* (main.rs); either way the invocation ends
Fail(step, why) ==
    /\ trace' = Append(trace, [step |-> step, ok |-> FALSE, why |-> why])
    /\ pc' = "failed"

\* the step's `if` is false: it is not called
NotCalled(step) ==
    /\ trace' = trace
    /\ pc' = NextStep(step)

\* the entries whose builds are followed
LlvmSvnUrl ==
    HttpUrl("llvm.org", << <<"svn">>, <<"llvm-project">>, <<"llvm">>, <<"trunk">> >>, None)

ProbedUrl == HttpUrl("example.com", << <<"llvm">> >>, None)

PipelineEntries ==
    { ParseSetting(PlainName("llvm-mirror"), NoVersion,
                   [UrlSetting(MirrorUrl) EXCEPT
                       !.target = <<"X86">>,
                       !.option = { o \in OptionPairs : o.v = "ON" }]).entry,
      ParseSetting(PlainName("llvm-svn"), NoVersion, UrlSetting(LlvmSvnUrl)).entry,
      ParseSetting(PlainName("llvm-probed"), NoVersion, UrlSetting(ProbedUrl)).entry,
      Official(<<17, 0, 2>>),
      ParseSetting(PlainName("my-local-llvm"), NoVersion,
                   [PathSetting("/path/to/your/src") EXCEPT
                       !.target = <<"X86", "AArch64">>,
                       !.generator = "VisualStudio"]).entry }

\* the entry as entry.toml or the official list defines it
Reload(e) == CHOOSE b \in PipelineEntries : b.name = e.name

BuilderStrs == { <<"N", "i", "n", "j", "a">>, <<"M", "y", "S", "u", "p", "e", "r", "B", "u", "i", "l", "d", "e", "r">> }

\* num_cpus::get()
NumCpus == 8

\* nproc.unwrap_or_else(num_cpus::get)
Nproc(a) == IF a.nproc = None THEN NumCpus ELSE a.nproc[1]

\* main.rs has no `skip` among the options of build-entry
ArgSets ==
    { a \in [update : BOOLEAN, clean : BOOLEAN, discard : BOOLEAN, skip : BOOLEAN,
             builder : {None} \cup { Some(b) : b \in BuilderStrs },
             nproc : {None, Some(2)},
             build_type : {None, Some("Debug")},
             via : {"build_entry_command", "main"}] :
        a.via = "main" => ~a.skip }

\* a process starts: the options are parsed and load_entry(&name)? runs
Start ==
    /\ pc = "idle"
    /\ \E a \in ArgSets, loaded \in BOOLEAN :
          /\ args' = a
          /\ entry' = Reload(entry)
          /\ pc' = IF loaded THEN Steps[1] ELSE "failed"
    /\ trace' = <<>>
    /\ procs' = <<>>
    /\ cmds' = NoCmds
    /\ UNCHANGED <<fs, notPipeline>>

\* if let Some(builder) = builder { entry.set_builder(&builder)?; }
SetBuilder ==
    /\ pc = "set_builder"
    /\ IF args.builder = None
       THEN NotCalled("set_builder") /\ UNCHANGED entry
       ELSE LET r == EntrySetBuilder(entry, args.builder[1])
            IN /\ entry' = r.entry
               /\ IF r.ok THEN Pass("set_builder") ELSE Fail("set_builder", r.why)
    /\ UNCHANGED <<args, procs, fs, cmds, notPipeline>>

\* if let Some(build_type) = build_type { entry.set_build_type(build_type)?; }
SetBuildType ==
    /\ pc = "set_build_type"
    /\ IF args.build_type = None
       THEN NotCalled("set_build_type") /\ UNCHANGED entry
       ELSE /\ entry' = [entry EXCEPT !.setting.build_type = args.build_type[1]]
            /\ Pass("set_build_type")
    /\ UNCHANGED <<args, procs, fs, cmds, notPipeline>>

\* if discard { entry.clean_cache_dir()?; }: fs::remove_dir_all(src_dir)
CleanCacheDir ==
    /\ pc = "clean_cache_dir"
    /\ IF ~args.discard
       THEN NotCalled("clean_cache_dir") /\ UNCHANGED fs
       ELSE IF ~fs.exists
       THEN Fail("clean_cache_dir", "Io: NotFound") /\ UNCHANGED fs
       ELSE /\ fs' = [fs EXCEPT !.exists = FALSE, !.by = "none", !.build = FALSE]
            /\ Pass("clean_cache_dir")
    /\ UNCHANGED <<entry, args, procs, cmds, notPipeline>>

\* if !skip { entry.checkout()?; }: from_url(url)? then download(src_dir)?
Checkout ==
    /\ pc = "checkout"
    /\ IF args.skip
       THEN NotCalled("checkout") /\ UNCHANGED <<fs, procs>>
       ELSE IF entry.kind = "Local"
       THEN Pass("checkout") /\ UNCHANGED <<fs, procs>>
       ELSE \E probe \in ProbeOutcomes, net \in BOOLEAN :
               LET src == FromUrl(entry.url[1], probe)
                   pp == ProbeProcs(entry.url[1], probe)
               IN IF src.tag = "Err"
                  THEN /\ Fail("checkout", src.err)
                       /\ procs' = procs \o pp
                       /\ fs' = fs
                  ELSE LET r == Download(src.res, fs, net)
                       IN /\ procs' = procs \o pp \o r.procs
                          /\ fs' = r.fs
                          /\ IF r.ok THEN Pass("checkout") ELSE Fail("checkout", r.why)
    /\ UNCHANGED <<entry, args, cmds, notPipeline>>

\* if update { entry.update()?; }: from_url(url)? then update(src_dir)?
Update ==
    /\ pc = "update"
    /\ IF ~args.update
       THEN NotCalled("update") /\ UNCHANGED <<fs, procs>>
       ELSE IF entry.kind = "Local"
       THEN Pass("update") /\ UNCHANGED <<fs, procs>>
       ELSE \E probe \in ProbeOutcomes, net \in BOOLEAN :
               LET src == FromUrl(entry.url[1], probe)
                   pp == ProbeProcs(entry.url[1], probe)
               IN IF src.tag = "Err"
                  THEN /\ Fail("update", src.err)
                       /\ procs' = procs \o pp
                       /\ fs' = fs
                  ELSE LET r == UpdateResource(src.res, fs, net)
                       IN /\ procs' = procs \o pp \o r.procs
                          /\ fs' = r.fs
                          /\ IF r.ok THEN Pass("update") ELSE Fail("update", r.why)
    /\ UNCHANGED <<entry, args, cmds, notPipeline>>

\* Entry::build_dir: src_dir/build, created (with its parents) if absent
BuildDir(d) == [d EXCEPT !.exists = TRUE, !.build = TRUE]

\* if clean { entry.clean_build_dir()?; }: build_dir()? then remove_dir_all
CleanBuildDir ==
    /\ pc = "clean_build_dir"
    /\ IF ~args.clean
       THEN NotCalled("clean_build_dir") /\ UNCHANGED fs
       ELSE /\ fs' = [BuildDir(fs) EXCEPT !.build = FALSE]
            /\ Pass("clean_build_dir")
    /\ UNCHANGED <<entry, args, procs, cmds, notPipeline>>

\* entry.build(nproc)?: configure()? constructs a cmake command and returns
\* Ok without running it (entry.rs:510-517); then `cmake --build` is built
\* and run with check_run()? (entry.rs:453-471)
Build ==
    /\ pc = "build"
    /\ \E t \in Toolsets, order \in IterOrders(entry.setting.option), ok \in BOOLEAN :
          /\ cmds' = [configure |-> ConfigureOpts(entry, t, order),
                      build |-> BuildArgs(entry, Nproc(args))]
          /\ procs' = Append(procs, "cmake --build")
          /\ IF ok THEN Pass("build") ELSE Fail("build", "CommandError: cmake --build")
    /\ fs' = BuildDir(fs)
    /\ UNCHANGED <<entry, args, notPipeline>>

\* the process ends, by return or by panic; what it held in memory is gone,
\* what it left on disk stays
Exit ==
    /\ pc \in {"done", "failed"}
    /\ pc' = "idle"
    /\ entry' = Reload(entry)
    /\ args' = NoArgs
    /\ trace' = <<>>
    /\ procs' = <<>>
    /\ cmds' = NoCmds
    /\ UNCHANGED <<fs, notPipeline>>

\* a Remote entry starts with an empty cache; a Local entry's path may or may
\* not hold a source tree
Init ==
    /\ entry \in PipelineEntries
    /\ fs \in IF entry.kind = "Remote" THEN {EmptyDisk}
              ELSE {EmptyDisk, [EmptyDisk EXCEPT !.exists = TRUE, !.by = "Local"]}
    /\ PipelineStart
    /\ CatalogIdle /\ ResourceIdle /\ ConfigureIdle /\ ArchiveIdle

Next ==
    \/ Start
    \/ SetBuilder
    \/ SetBuildType
    \/ CleanCacheDir
    \/ Checkout
    \/ Update
    \/ CleanBuildDir
    \/ Build
    \/ Exit

Spec == Init /\ [][Next]_vars

-----------------------------------------------------------------------------
(* Entry::configure run repeatedly on one entry (entry.rs:476-518)          *)

\* bounds of the configure model
MaxOptions == 2

MaxConfigureRuns == 2

ConfigureSettings ==
    { [DefaultSetting EXCEPT !.generator = g, !.build_type = b, !.target = t, !.option = o] :
        g \in {"Platform", "Makefile", "Ninja", "VisualStudio", "VisualStudioWin64"},
        b \in {"Debug", "Release", "RelWithDebInfo", "MinSizeRel"},
        t \in {<<>>, <<"X86">>, <<"X86", "AArch64">>},
        o \in { O \in SUBSET OptionPairs : Cardinality(O) <= MaxOptions } }

ConfigureEntries ==
    { ParseSetting(PlainName("llvm-mirror"), NoVersion, [c EXCEPT !.url = Some(MirrorUrl)]).entry :
        c \in ConfigureSettings }
    \cup
    { ParseSetting(PlainName("my-local-llvm"), NoVersion,
                   [c EXCEPT !.path = Some("/path/to/your/src")]).entry :
        c \in ConfigureSettings }

\* one run of configure(): the HashMap yields the options in some order;
\* build_dir() creates the build directory; no process is started
Configure ==
    /\ Len(confRuns) < MaxConfigureRuns
    /\ \E order \in IterOrders(entry.setting.option) :
          confRuns' = Append(confRuns, ConfigureOpts(entry, tools, order))
    /\ fs' = BuildDir(fs)
    /\ UNCHANGED <<catalogVars, resourceVars, archiveVars, entry, args, pc, trace, procs,
                   cmds, tools>>

ConfigureInit ==
    /\ entry \in ConfigureEntries
    /\ tools \in Toolsets
    /\ confRuns = <<>>
    /\ fs = EmptyDisk
    /\ PipelineStart
    /\ CatalogIdle /\ ResourceIdle /\ ArchiveIdle

ConfigureNext == Configure

SpecConfigure == ConfigureInit /\ [][ConfigureNext]_vars

-----------------------------------------------------------------------------
(* Claims about the catalog lookup                                          *)

HasName(es, n) == \E i \in 1..Len(es) : es[i].name = n

FirstNamed(es, n) ==
    es[CHOOSE i \in 1..Len(es) :
          es[i].name = n /\ \A j \in 1..(i - 1) : es[j].name # n]

\* the entries of the merged list that come from entry.toml / from the
\* official releases
UserPart(es) == SubSeq(es, 1, Len(es) - Len(OfficialReleases))

BuiltinPart(es) == SubSeq(es, Len(es) - Len(OfficialReleases) + 1, Len(es))

Satisfies(e, n) ==
    e.version # NoVersion /\ ReqParses(n) /\ ReqMatches(ReqParse(n), e.version)

VerLess(a, b) ==
    \/ a[1] < b[1]
    \/ a[1] = b[1] /\ a[2] < b[2]
    \/ a[1] = b[1] /\ a[2] = b[2] /\ a[3] < b[3]

Looked == found.tag # "none"

Loaded == Looked /\ entries # <<>>

\* C1: load_entry is a two-phase lookup: when some entry of the merged list
\* has exactly the name asked for, the first such entry is returned, whatever
\* versions earlier entries have; an entry is returned by version match only
\* when no entry has the name.
C1_ExactNameBeforeVersion ==
    Loaded =>
        /\ HasName(entries, query) =>
              found = [tag |-> "Ok", entry |-> FirstNamed(entries, query)]
        /\ (found.tag = "Ok" /\ found.entry.name # query) => ~HasName(entries, query)

-----------------------------------------------------------------------------
(* Claims about Resource::from_url                                          *)

\* the last path segment of a URL that has path segments
LastSegment(u) == IF u.segs = <<>> THEN <<>> ELSE u.segs[Len(u.segs)]

HasSegments(u) == u.valid /\ u.base

ArchiveRule(u) == HasSegments(u) /\ \E ext \in ArchiveExts : EndsWith(LastSegment(u), ext)

TrunkRule(u) == HasSegments(u) /\ EndsWith(LastSegment(u), <<"trunk">>)

DotGitRule(u) == HasSegments(u) /\ EndsWith(LastSegment(u), <<".git">>)

HostRule(u) == HasSegments(u) /\ u.host \in {"github.com", "gitlab.com"}

LlvmSvnRule(u) ==
    HasSegments(u) /\ u.host = "llvm.org" /\ u.segs # <<>>
        /\ u.segs[1] # <<>> /\ u.segs[1][1] = "svn"

LlvmGitRule(u) ==
    HasSegments(u) /\ u.host = "llvm.org" /\ u.segs # <<>>
        /\ u.segs[1] # <<>> /\ u.segs[1][1] = "git"

AnyRule(u) ==
    ArchiveRule(u) \/ TrunkRule(u) \/ DotGitRule(u) \/ HostRule(u)
        \/ LlvmSvnRule(u) \/ LlvmGitRule(u)

IsOk(kind) == rres.tag = "Ok" /\ rres.res.kind = kind

Unchanged(kind) ==
    rres = [tag |-> "Ok", res |-> [kind |-> kind, url |-> rurl, branch |-> None]]

\* C7: from_url applies its rules in strict order, first match wins: archive
\* suffix, trunk, .git, hosting host, llvm.org /svn or /git, and the probe
\* only when none matches. An archive suffix gives Tar with the URL unchanged
\* even on github.com (as for every official release), and no process is
\* started and no scratch directory made for a URL a rule matches.
C7_StrictRuleOrder ==
    rpc # "call" =>
        /\ ArchiveRule(rurl) => Unchanged("Tar")
        /\ (~ArchiveRule(rurl) /\ TrunkRule(rurl)) => Unchanged("Svn")
        /\ (~ArchiveRule(rurl) /\ ~TrunkRule(rurl) /\ DotGitRule(rurl)) => IsOk("Git")
        /\ (~ArchiveRule(rurl) /\ ~TrunkRule(rurl) /\ ~DotGitRule(rurl) /\ HostRule(rurl))
              => IsOk("Git")
        /\ (~ArchiveRule(rurl) /\ ~TrunkRule(rurl) /\ ~DotGitRule(rurl) /\ ~HostRule(rurl)
              /\ LlvmSvnRule(rurl)) => Unchanged("Svn")
        /\ (~ArchiveRule(rurl) /\ ~TrunkRule(rurl) /\ ~DotGitRule(rurl) /\ ~HostRule(rurl)
              /\ ~LlvmSvnRule(rurl) /\ LlvmGitRule(rurl)) => IsOk("Git")
        /\ AnyRule(rurl) => (rpc = "returned" /\ rprocs = <<>> /\ tmp = "none")
        /\ (rprocs # <<>> \/ tmp # "none") => (rurl.valid /\ ~AnyRule(rurl))
        /\ (\E i \in 1..Len(OfficialVersions) : rurl = OfficialUrl(OfficialVersions[i]))
              => Unchanged("Tar")

\* an archive on github.com, written with an upper-case host, resolved to Tar
C7_Witness ==
    /\ rpc = "returned"
    /\ rurl.host = "github.com" /\ rurl.hostUpper
    /\ ArchiveRule(rurl)
    /\ Unchanged("Tar")
    /\ rprocs = <<>>

\* C8 as stated: a Git resource has the input's fragment as its branch and the
\* input URL with the fragment removed as its url; Svn and Tar keep the input.
C8_GitUrlIsInputWithoutFragment ==
    (rpc = "returned" /\ rres.tag = "Ok") =>
        IF rres.res.kind = "Git"
        THEN /\ rres.res.branch = rurl.frag
             /\ rres.res.url = [rurl EXCEPT !.frag = None]
        ELSE rres.res.url = rurl /\ rres.res.branch = None

\* C8 amended: a Git resource has the input's fragment as its branch, and its
\* url is the url crate's serialization of the input without the fragment:
\* the host in lower case and an absent path written "/" -- the input with
\* the fragment removed exactly when the input is already written that way;
\* Svn and Tar keep the input.
C8_GitUrlIsSerializedWithoutFragment ==
    (rpc = "returned" /\ rres.tag = "Ok") =>
        IF rres.res.kind = "Git"
        THEN /\ rres.res.branch = rurl.frag
             /\ rres.res.url.frag = None
             /\ rres.res.url.host = rurl.host
             /\ ~rres.res.url.hostUpper
             /\ rres.res.url.segs =
                   (IF rurl.base /\ rurl.segs = <<>> THEN << <<>> >> ELSE rurl.segs)
             /\ (rres.res.url = [rurl EXCEPT !.frag = None])
                   <=> (~rurl.hostUpper /\ ~(rurl.base /\ rurl.segs = <<>>))
        ELSE rres.res.url = rurl /\ rres.res.branch = None

\* a .git URL with a fragment and an upper-case host
C8_Witness ==
    /\ rpc = "returned"
    /\ IsOk("Git")
    /\ DotGitRule(rurl)
    /\ rurl.frag = Some("feature") /\ rurl.hostUpper
    /\ rres.res.branch = Some("feature")
    /\ rres.res.url # [rurl EXCEPT !.frag = None]

LastProc == rprocs[Len(rprocs)]

\* C9: in the probe, a successful git ls-remote gives Git, a failed one Svn,
\* a failed git init or git remote add an error; on every exit of from_url,
\* the error exits too, the scratch directory no longer exists.
C9_ProbeOutcomeAndCleanup ==
    rpc = "returned" =>
        /\ tmp # "exists"
        /\ rprocs # <<>> =>
              /\ tmp = "deleted"
              /\ (LastProc.cmd = "git ls-remote" /\ LastProc.ok) => IsOk("Git")
              /\ (LastProc.cmd = "git ls-remote" /\ ~LastProc.ok) => Unchanged("Svn")
              /\ LastProc.cmd \in {"git init", "git remote add"}
                    => (~LastProc.ok /\ rres = [tag |-> "Err", err |-> "CommandError"])

\* git remote add failed: the error exit, with the scratch directory gone
C9_Witness ==
    /\ rpc = "returned"
    /\ Len(rprocs) = 2 /\ ~LastProc.ok
    /\ rres.tag = "Err"
    /\ tmp = "deleted"

-----------------------------------------------------------------------------
(* Claims about the pipeline and the build                                  *)

LastCall == trace[Len(trace)]

Called(step) == \E i \in 1..Len(trace) : trace[i].step = step

\* whether the options select a step
Selected(step) ==
    CASE step = "set_builder" -> args.builder # None
      [] step = "set_build_type" -> args.build_type # None
      [] step = "clean_cache_dir" -> args.discard
      [] step = "checkout" -> ~args.skip
      [] step = "update" -> args.update
      [] step = "clean_build_dir" -> args.clean
      [] step = "build" -> TRUE

\* C2: build(nproc) runs two cmake processes in order, the configure step and
\* then the build-and-install step, the second only if the first succeeded.
C2_ConfigureRunsBeforeBuild ==
    \A j \in 1..Len(procs) :
        procs[j] = "cmake --build" =>
            \E i \in 1..(j - 1) : procs[i] = "cmake <configure options>"

\* C3: two runs of configure with the same setting and the same tools on the
\* path construct the same argument list.
C3_ConfigureDeterministic ==
    \A i, j \in 1..Len(confRuns) : confRuns[i] = confRuns[j]

\* failures of a checkout that are the remote's or the machine's doing
EnvironmentFailures ==
    { "CommandError: svn co: remote unreachable",
      "CommandError: git clone: remote unreachable",
      "HttpError", "Io: /tmp", "CommandError" }

\* C4: checkout of a Remote entry whose source directory exists and holds
\* what an earlier checkout put there does not fail (the remote being
\* reachable).
C4_CheckoutIdempotent ==
    [][ ( /\ pc = "checkout" /\ pc' # "checkout"
          /\ ~args.skip
          /\ entry.kind = "Remote"
          /\ fs.exists /\ fs.by \in {"Git", "Svn", "Tar"} )
        => (LastCall'.ok \/ LastCall'.why \in EnvironmentFailures) ]_vars

\* C5: clean_cache_dir and clean_build_dir succeed when the directory they
\* are to delete does not exist.
C5_CleanAbsentSucceeds ==
    [][ ( \/ pc = "clean_cache_dir" /\ pc' # pc /\ args.discard /\ ~fs.exists
          \/ pc = "clean_build_dir" /\ pc' # pc /\ args.clean /\ ~fs.build )
        => LastCall'.ok ]_vars

\* C6: the steps of an invocation run in the order set_builder,
\* set_build_type, clean_cache_dir, checkout, update, clean_build_dir, build,
\* each at most once and only if selected; a failed step is the last one, so
\* build starts only after every selected earlier step succeeded.
C6_PipelineOrder ==
    /\ \A i \in 1..Len(trace) :
          /\ \E k \in 1..Len(Steps) : Steps[k] = trace[i].step
          /\ Selected(trace[i].step)
    /\ \A i, j \in 1..Len(trace) :
          i < j => StepIndex(trace[i].step) < StepIndex(trace[j].step)
    /\ \A i \in 1..(Len(trace) - 1) : trace[i].ok
    /\ \A k \in 1..Len(Steps) :
          ( /\ Selected(Steps[k])
            /\ \/ Called("build") /\ k < Len(Steps)
               \/ \E m \in 1..Len(Steps) : pc = Steps[m] /\ k < m )
          => \E i \in 1..Len(trace) : trace[i].step = Steps[k] /\ trace[i].ok
    /\ (\E j \in 1..Len(procs) : procs[j] = "cmake --build") => Called("build")

\* an invocation of a Remote entry with every step selected, all of them run
C6_Witness ==
    /\ pc = "done"
    /\ entry.kind = "Remote"
    /\ Len(trace) = Len(Steps)
    /\ \A i \in 1..Len(trace) : trace[i].step = Steps[i] /\ trace[i].ok

-----------------------------------------------------------------------------
(* Further claims about the catalog lookup                                  *)

IsBuiltinName(n) == \E i \in 1..Len(OfficialReleases) : OfficialReleases[i].name = n

\* C11: when entry.toml declares an entry under the name of an official
\* release, load_entry of that name returns the user's entry, in whatever
\* order the user's entries are iterated.
C11_UserEntryShadowsBuiltin ==
    ( /\ Loaded
      /\ IsBuiltinName(query)
      /\ HasName(UserPart(entries), query) )
    => found = [tag |-> "Ok", entry |-> FirstNamed(UserPart(entries), query)]

HasBoth(setting) == setting.path # None /\ setting.url # None

HasNeither(setting) == setting.path = None /\ setting.url = None

\* an entry is Local with exactly `path` or Remote with exactly `url`
WellFormed(e) ==
    \/ /\ e.kind = "Local"
       /\ e.setting.path # None /\ e.setting.url = None
       /\ e.path = e.setting.path /\ e.url = None
    \/ /\ e.kind = "Remote"
       /\ e.setting.url # None /\ e.setting.path = None
       /\ e.url = e.setting.url /\ e.path = None

-----------------------------------------------------------------------------
(* Entry::set_builder called repeatedly on one entry (entry.rs:126-140,     *)
(* 365-370)                                                                 *)

\* bound of the set_builder model
MaxSetBuilderCalls == 2

\* the strings given; "U+212A" is the one character KELVIN SIGN, which is not
\* ASCII
GeneratorStrs ==
    { <<"M", "a", "k", "e", "f", "i", "l", "e">>,
      <<"m", "a", "k", "e", "f", "i", "l", "e">>,
      <<"M", "A", "K", "E", "F", "I", "L", "E">>,
      <<"N", "i", "n", "j", "a">>,
      <<"N", "I", "N", "J", "A">>,
      <<"n", "I", "n", "J", "a">>,
      <<"v", "s">>,
      <<"V", "S">>,
      <<"V", "s">>,
      <<"V", "i", "s", "u", "a", "l", "S", "t", "u", "d", "i", "o">>,
      <<"V", "I", "S", "U", "A", "L", "S", "T", "U", "D", "I", "O">>,
      <<"M", "y", "S", "u", "p", "e", "r", "B", "u", "i", "l", "d", "e", "r">>,
      <<>>,
      <<"m", "a", "k", "e">>,
      <<"n", "i", "n", "j", "a", " ">>,
      <<"v", "i", "s", "u", "a", "l", "s", "t", "u", "d", "i", "o", "w", "i", "n", "6", "4">>,
      <<"p", "l", "a", "t", "f", "o", "r", "m">>,
      <<"U", "n", "i", "x", " ", "M", "a", "k", "e", "f", "i", "l", "e", "s">>,
      <<"v", "-", "s">>,
      <<"m", "a", "U+212A", "e", "f", "i", "l", "e">> }

\* entry.set_builder(str), with the string kept in args and the result in trace
SetBuilderCall ==
    /\ Len(trace) < MaxSetBuilderCalls
    /\ \E str \in GeneratorStrs :
          LET r == EntrySetBuilder(entry, str)
          IN /\ args' = [args EXCEPT !.builder = Some(str)]
             /\ entry' = r.entry
             /\ trace' = Append(trace, [step |-> "set_builder", ok |-> r.ok, why |-> r.why])
    /\ UNCHANGED <<pc, procs, fs, cmds, notPipeline>>

BuilderInit ==
    /\ entry \in PipelineEntries
    /\ fs = EmptyDisk
    /\ PipelineStart
    /\ CatalogIdle /\ ResourceIdle /\ ConfigureIdle /\ ArchiveIdle

BuilderNext == SetBuilderCall

SpecBuilder == BuilderInit /\ [][BuilderNext]_vars

\* s is `word` (written in lower case) up to the case of its ASCII letters
EqIgnoreAsciiCase(s, word) ==
    /\ Len(s) = Len(word)
    /\ \A i \in 1..Len(s) :
          \/ s[i] = word[i]
          \/ \E k \in 1..Len(LowerCase) : word[i] = LowerCase[k] /\ s[i] = UpperCase[k]

\* the generator a string names, if any
Names(s) ==
    IF EqIgnoreAsciiCase(s, <<"m", "a", "k", "e", "f", "i", "l", "e">>) THEN Some("Makefile")
    ELSE IF EqIgnoreAsciiCase(s, <<"n", "i", "n", "j", "a">>) THEN Some("Ninja")
    ELSE IF EqIgnoreAsciiCase(s, <<"v", "i", "s", "u", "a", "l", "s", "t", "u", "d", "i", "o">>) THEN Some("VisualStudio")
    ELSE IF EqIgnoreAsciiCase(s, <<"v", "s">>) THEN Some("VisualStudio")
    ELSE None

\* C13: set_builder accepts, whatever the case of the ASCII letters, exactly
\* makefile, ninja, visualstudio and vs, and sets the generator to Makefile,
\* Ninja, VisualStudio and VisualStudio, changing nothing else of the entry;
\* any other string fails with UnsupportedGenerator and leaves the entry,
\* its generator included, as it was.
C13_GeneratorParsing ==
    [][ Len(trace') = Len(trace) + 1 =>
          LET str == args'.builder[1]
              call == trace'[Len(trace')]
          IN /\ call.step = "set_builder"
             /\ Names(str) # None =>
                   /\ call.ok
                   /\ entry' = [entry EXCEPT !.setting.generator = Names(str)[1]]
             /\ Names(str) = None =>
                   /\ ~call.ok /\ call.why = "UnsupportedGenerator"
                   /\ entry' = entry ]_vars

\* "vs" set VisualStudio on an entry that had the platform default, and a
\* later unsupported string failed and left VisualStudio in place
C13_Witness ==
    /\ Len(trace) = 2
    /\ trace[1].ok /\ ~trace[2].ok
    /\ trace[2].why = "UnsupportedGenerator"
    /\ args.builder = Some(<<"v", "i", "s", "u", "a", "l", "s", "t", "u", "d", "i", "o", "w", "i", "n", "6", "4">>)
    /\ entry.name = PlainName("llvm-mirror")
    /\ entry.setting.generator = "VisualStudio"

-----------------------------------------------------------------------------
(* Entry::set_build_type and Entry::build called on one entry               *)
(* (entry.rs:160-170, 372-376, 451-474)                                     *)

\* bound of the build model
MaxBuildCalls == 2

Generators == { "Platform", "Makefile", "Ninja", "VisualStudio", "VisualStudioWin64" }

BuildTypes == { "Debug", "Release", "RelWithDebInfo", "MinSizeRel" }

Nprocs == { 1, 2, NumCpus }

BuildEntries ==
    { ParseSetting(PlainName("llvm-mirror"), NoVersion,
                   [UrlSetting(MirrorUrl) EXCEPT !.generator = g, !.build_type = b]).entry :
        g \in Generators, b \in BuildTypes }
    \cup
    { ParseSetting(PlainName("my-local-llvm"), NoVersion,
                   [PathSetting("/path/to/your/src") EXCEPT
                       !.generator = g, !.build_type = b]).entry :
        g \in Generators, b \in BuildTypes }

\* entry.set_build_type(build_type)
SetBuildTypeCall ==
    /\ Len(trace) < MaxBuildCalls
    /\ \E b \in BuildTypes :
          /\ args' = [args EXCEPT !.build_type = Some(b)]
          /\ entry' = [entry EXCEPT !.setting.build_type = b]
    /\ trace' = Append(trace, [step |-> "set_build_type", ok |-> TRUE, why |-> ""])
    /\ UNCHANGED <<pc, procs, fs, cmds, notPipeline>>

\* entry.build(nproc): configure() constructs its command and creates the
\* build directory; `cmake --build` is constructed and run
BuildCall ==
    /\ Len(trace) < MaxBuildCalls
    /\ \E nproc \in Nprocs, t \in Toolsets,
          order \in IterOrders(entry.setting.option), ok \in BOOLEAN :
          /\ args' = [args EXCEPT !.nproc = Some(nproc)]
          /\ cmds' = [configure |-> ConfigureOpts(entry, t, order),
                      build |-> BuildArgs(entry, nproc)]
          /\ procs' = Append(procs, "cmake --build")
          /\ trace' = Append(trace,
                             [step |-> "build", ok |-> ok,
                              why |-> IF ok THEN "" ELSE "CommandError: cmake --build"])
    /\ fs' = BuildDir(fs)
    /\ UNCHANGED <<entry, pc, notPipeline>>

BuildInit ==
    /\ entry \in BuildEntries
    /\ fs = [EmptyDisk EXCEPT !.exists = TRUE, !.by = "Local"]
    /\ PipelineStart
    /\ CatalogIdle /\ ResourceIdle /\ ConfigureIdle /\ ArchiveIdle

BuildNext == SetBuildTypeCall \/ BuildCall

SpecBuild == BuildInit /\ [][BuildNext]_vars

\* what follows "--build <dir> --target install" on the command line
ExtraFlags == SubSeq(cmds.build, 5, Len(cmds.build))

Has(flags, word) == \E i \in 1..Len(flags) : flags[i] = word

\* C14: after build(nproc), the command line is "--build <build dir>
\* --target install" followed by: for Makefile and Ninja "-- -j <nproc>" and
\* no --config; for VisualStudio and VisualStudioWin64 "--config <the
\* entry's build type now>" and no -j; for Platform nothing.
C14_BuildFlagsByGenerator ==
    (trace # <<>> /\ LastCall.step = "build") =>
        LET g == entry.setting.generator
        IN /\ SubSeq(cmds.build, 1, 4)
                 = << "--build", SrcDir(entry) \o "/build", "--target", "install" >>
           /\ g \in {"Makefile", "Ninja"} =>
                 /\ ExtraFlags = << "--", "-j", ToString(args.nproc[1]) >>
                 /\ ~Has(ExtraFlags, "--config")
           /\ g \in {"VisualStudio", "VisualStudioWin64"} =>
                 /\ ExtraFlags = << "--config", entry.setting.build_type >>
                 /\ ~Has(ExtraFlags, "-j")
           /\ g = "Platform" => ExtraFlags = <<>>

\* a build with VisualStudioWin64 after set_build_type(MinSizeRel)
C14_Witness ==
    /\ Len(trace) = 2
    /\ trace[1].step = "set_build_type" /\ trace[2].step = "build"
    /\ entry.setting.generator = "VisualStudioWin64"
    /\ args.build_type = Some("MinSizeRel")
    /\ args.nproc = Some(2)
    /\ ExtraFlags = << "--config", "MinSizeRel" >>

-----------------------------------------------------------------------------
(* Resource::download of a Tar resource, step by step                       *)
(* (resource.rs:162-249, 267-302)                                           *)

\* bounds of the archive model
MaxArchiveEntries == 2

MaxDownloads == 2

\* the compression a file name's suffix names (as tar's --auto-compress reads
\* them: .tgz and .taz are gzip)
FormatOf(filename) ==
    IF EndsWith(filename, <<".tar", ".gz">>) \/ EndsWith(filename, <<".tgz">>)
       \/ EndsWith(filename, <<".taz">>) THEN "gz"
    ELSE IF EndsWith(filename, <<".tar", ".xz">>) THEN "xz"
    ELSE IF EndsWith(filename, <<".tar", ".bz2">>) THEN "bz2"
    ELSE IF EndsWith(filename, <<".tar", ".Z">>) THEN "Z"
    ELSE "none"

\* the urls fetched: one per archive suffix, all of them Tar for from_url
TarUrls ==
    { u \in { HttpUrl("example.com", << <<"releases">>, <<"llvm-17.0.2">> \o ext >>, None) :
                ext \in ArchiveExts } :
        FromUrlRules(u) = Returned(Tar(u)) }

\* an archive entry: its path as written in the header, split at "/", and
\* whether the header can be read (magic and checksum are right)
EntryPaths ==
    { <<"top">>, <<"top", "a", "b.txt">>, <<".", "top", "a">>, <<"top", "..", "x">> }

ArchiveEntries ==
    { [path |-> p, valid |-> TRUE] : p \in EntryPaths }
    \cup { [path |-> <<"top", "bad">>, valid |-> FALSE] }

\* what a server may hold under a url: an archive in the compression the
\* suffix names, or a gzip one whatever the suffix
Remotes(u) ==
    { [format |-> f, entries |-> es] :
        f \in { "gz", FormatOf(GetFilenameFromUrl(u).name) },
        es \in UNION { [1..n -> ArchiveEntries] : n \in 0..MaxArchiveEntries } }

\* Path::components(): a leading "." is kept, "." and "" elsewhere are not
\* components; ".." is
Components(path) ==
    LET keep(c) == c # "." /\ c # ""
    IN IF path = <<>> THEN <<>>
       ELSE IF path[1] = "." THEN <<".">> \o SelectSeq(Tail(path), keep)
       ELSE SelectSeq(path, keep)

\* the target computed without skip(1)
TargetKeepingFirst(dest, tool_name, path) == dest \o <<tool_name>> \o Components(path)

\* resource.rs:231-234: dest.join(tool_name), then every component but the
\* first joined on
Target(dest, tool_name, path) ==
    LET comps == Components(path)
    IN dest \o <<tool_name>> \o (IF comps = <<>> THEN <<>> ELSE Tail(comps))

\* Entry::src_dir of the entry fetched, and checkout's tool name (entry.rs:383)
Dest == << "<cache>", "cargo-llvm", "17.0.2" >>

ToolName == "llvm"

\* a cache that is never found to hold the file
NeverInCache(c, name) == FALSE

\* tar_file.exists()
InCache(c, name) == \E f \in c : f.name = name

CacheFile(c, name) == CHOOSE f \in c : f.name = name

ArchiveOk == [tag |-> "Ok"]

ArchiveErr(e) == [tag |-> "Err", err |-> e]

ArchivePanic(msg) == [tag |-> "Panic", msg |-> msg]

\* resource.rs:162-196: dest is made, the file name taken from the url, the
\* cache directory made, and the cache looked up
DownloadCall ==
    /\ apc \in {"idle", "returned", "panicked"}
    /\ acalls < MaxDownloads
    /\ acalls' = acalls + 1
    /\ unpacked' = <<>>
    /\ LET fn == GetFilenameFromUrl(aurl)
       IN \E dirs \in BOOLEAN :
             IF ~dirs
             THEN apc' = "returned" /\ ares' = ArchiveErr("Io: create_dir_all")
             ELSE IF ~fn.ok
             THEN apc' = "returned" /\ ares' = ArchiveErr("InvalidUrl")
             ELSE /\ ares' = [tag |-> "none"]
                  /\ apc' = IF InCache(cache, fn.name) THEN "open" ELSE "request"
    /\ UNCHANGED <<aurl, remote, cache, http, notArchive>>

\* resource.rs:199-200, 268-276: reqwest::get(url).await? and the status test
HttpGet ==
    /\ apc = "request"
    /\ \E status \in {"no response", "200", "404", "500"} :
          /\ http' = Append(http, [url |-> aurl, status |-> status, body |-> "none"])
          /\ IF status = "no response"
             THEN apc' = "returned" /\ ares' = ArchiveErr("Reqwest")
             ELSE IF status # "200"
             THEN apc' = "returned" /\ ares' = ArchiveErr("HttpError")
             ELSE apc' = "stream" /\ ares' = ares
    /\ UNCHANGED <<aurl, remote, cache, unpacked, acalls, notArchive>>

\* resource.rs:291-301: the body is read chunk by chunk into memory
Stream ==
    /\ apc = "stream"
    /\ \E ok \in BOOLEAN :
          /\ http' = [http EXCEPT ![Len(http)].body = IF ok THEN "complete" ELSE "aborted"]
          /\ IF ok THEN apc' = "write" /\ ares' = ares
             ELSE apc' = "returned" /\ ares' = ArchiveErr("Io: chunk")
    /\ UNCHANGED <<aurl, remote, cache, unpacked, acalls, notArchive>>

\* resource.rs:204: fs::write(&tar_file, &bytes)?: the file is created and
\* the bytes written; it may fail before the file exists or part way
WriteCache ==
    /\ apc = "write"
    /\ LET name == GetFilenameFromUrl(aurl).name
       IN \E outcome \in { [end |-> e, kept |-> 0] : e \in {"written", "not created"} }
                         \cup { [end |-> "cut", kept |-> k] :
                                   k \in 0..(Len(remote.entries) - 1) } :
             IF outcome.end = "written"
             THEN /\ cache' = cache \cup { [name |-> name, format |-> remote.format,
                                            entries |-> remote.entries, complete |-> TRUE] }
                  /\ apc' = "open" /\ ares' = ares
             ELSE IF outcome.end = "not created"
             THEN /\ cache' = cache
                  /\ apc' = "returned" /\ ares' = ArchiveErr("Io: write")
             ELSE /\ cache' = cache \cup { [name |-> name, format |-> remote.format,
                                            entries |-> SubSeq(remote.entries, 1, outcome.kept),
                                            complete |-> FALSE] }
                  /\ apc' = "returned" /\ ares' = ArchiveErr("Io: write")
    /\ UNCHANGED <<aurl, remote, http, unpacked, acalls, notArchive>>

\* resource.rs:209-216: File::open, GzDecoder::new, Archive::new, entries()
OpenArchive ==
    /\ apc = "open"
    /\ \E opened \in BOOLEAN :
          IF opened THEN apc' = "unpack" /\ ares' = ares
          ELSE apc' = "returned" /\ ares' = ArchiveErr("Io: open")
    /\ UNCHANGED <<aurl, remote, cache, http, unpacked, acalls, notArchive>>

\* resource.rs:225-248: one turn of `for entry in entries`, or its end. The
\* iterator yields Err when the gzip decoder cannot read the file (it is not
\* gzip, or it is cut short) and when a header is not valid; expect() then
\* panics. An error of unpack is logged and the loop goes on.
UnpackEntry ==
    /\ apc = "unpack"
    /\ LET file == CacheFile(cache, GetFilenameFromUrl(aurl).name)
           i == Len(unpacked) + 1
       IN IF file.format # "gz"
          THEN /\ apc' = "panicked" /\ ares' = ArchivePanic("Invalid tar entry")
               /\ unpacked' = unpacked
          ELSE IF i > Len(file.entries)
          THEN /\ unpacked' = unpacked
               /\ IF file.complete
                  THEN apc' = "returned" /\ ares' = ArchiveOk
                  ELSE apc' = "panicked" /\ ares' = ArchivePanic("Invalid tar entry")
          ELSE IF ~file.entries[i].valid
          THEN /\ apc' = "panicked" /\ ares' = ArchivePanic("Invalid tar entry")
               /\ unpacked' = unpacked
          ELSE \E result \in {"unpacked", "AlreadyExists", "Other"} :
                  /\ unpacked' = Append(unpacked,
                                        [path |-> file.entries[i].path,
                                         target |-> Target(Dest, ToolName, file.entries[i].path),
                                         result |-> result])
                  /\ apc' = apc /\ ares' = ares
    /\ UNCHANGED <<aurl, remote, cache, http, acalls, notArchive>>

ArchiveInit ==
    /\ aurl \in TarUrls
    /\ remote \in Remotes(aurl)
    /\ ArchiveStart
    /\ CatalogIdle /\ ResourceIdle /\ PipelineIdle /\ ConfigureIdle

ArchiveNext ==
    \/ DownloadCall
    \/ HttpGet
    \/ Stream
    \/ WriteCache
    \/ OpenArchive
    \/ UnpackEntry

SpecArchive == ArchiveInit /\ [][ArchiveNext]_vars

-----------------------------------------------------------------------------
(* Claims about the download of archives                                    *)

ArchiveName == GetFilenameFromUrl(aurl).name

\* the cache holds a file of the url's file name
Cached(c) == \E f \in c : f.name = ArchiveName

\* a request answered 200 whose body was read to its end
Downloaded(h) == \E i \in 1..Len(h) : h[i].status = "200" /\ h[i].body = "complete"

\* C15: the cache is keyed by the url's file name. A download that finds the
\* file in the cache makes no request; one that does not find it makes a
\* request, and opens the archive only once the file is in the cache. A
\* response that is not 2xx ends the download with HttpError and the cache
\* as it was. The cache changes only by the write that follows a request
\* answered 200 and read to its end, so a file in the cache implies such a
\* request.
C15_CacheBeforeHttp ==
    [][ /\ (apc' = "request" /\ apc # "request") => ~Cached(cache)
        /\ Len(http') # Len(http) =>
              /\ ~Cached(cache)
              /\ Len(http') = Len(http) + 1
              /\ http'[Len(http')].url = aurl
        /\ (apc' = "open" /\ apc # "open") =>
              /\ Cached(cache')
              /\ Cached(cache) => Len(http') = Len(http)
        /\ (apc \notin {"request", "stream", "write"} /\ Cached(cache))
              => Len(http') = Len(http)
        /\ (Len(http') # Len(http) /\ http'[Len(http')].status \in {"404", "500"}) =>
              /\ ares' = ArchiveErr("HttpError")
              /\ apc' = "returned"
              /\ cache' = cache
        /\ cache' # cache =>
              /\ apc = "write"
              /\ http[Len(http)].status = "200" /\ http[Len(http)].body = "complete"
              /\ \A f \in cache' \ cache : f.name = ArchiveName
        /\ cache' # {} => Downloaded(http')
        /\ \A f, g \in cache' : f.name = g.name => f = g ]_vars

\* a second download served from the cache: one request in all, made by the
\* first, and the archive is being unpacked
C15_Witness ==
    /\ acalls = 2
    /\ Len(http) = 1
    /\ Cached(cache)
    /\ apc = "unpack"

\* the directory every entry is unpacked under: dest/llvm
Root == << "<cache>", "cargo-llvm", "17.0.2", "llvm" >>

\* C16: every archive entry is unpacked to dest/llvm followed by the entry's
\* path less its first component, whether unpacking it succeeds or not:
\* top/a/b.txt goes to dest/llvm/a/b.txt and top to dest/llvm itself; of
\* ./top/a the first component is ".", of top/../x it is top.
C16_StripFirstComponent ==
    \A i \in 1..Len(unpacked) :
        LET u == unpacked[i]
        IN /\ Len(u.target) >= Len(Root)
           /\ SubSeq(u.target, 1, Len(Root)) = Root
           /\ u.path = <<"top", "a", "b.txt">> => u.target = Root \o <<"a", "b.txt">>
           /\ u.path = <<"top">> => u.target = Root
           /\ u.path = <<".", "top", "a">> => u.target = Root \o <<"top", "a">>
           /\ u.path = <<"top", "..", "x">> => u.target = Root \o <<"..", "x">>
           /\ u.path \in EntryPaths

\* an archive of the directory top and the file top/a/b.txt, both unpacked
C16_Witness ==
    /\ ares = ArchiveOk
    /\ Len(unpacked) = 2
    /\ unpacked[1].path = <<"top">> /\ unpacked[1].target = Root
    /\ unpacked[2].path = <<"top", "a", "b.txt">>
    /\ unpacked[2].target = Root \o <<"a", "b.txt">>
    /\ unpacked[2].result = "unpacked"

\* the file of the cache that download opens
Opened == CacheFile(cache, ArchiveName)

\* the download got as far as the loop over the archive's entries, and ended
LoopEnded == Cached(cache) /\ ares.tag \in {"Ok", "Panic"}

ValidEntries(es) == SelectSeq(es, LAMBDA e : e.valid)

\* C17: extraction is best-effort: whatever fails on single entries of a
\* gzip archive that is whole -- unpack failing with AlreadyExists or with
\* another error, or an entry that cannot be read -- download returns Ok and
\* every other entry has been processed.
C17_BestEffortExtraction ==
    (LoopEnded /\ Opened.format = "gz" /\ Opened.complete) =>
        /\ ares = ArchiveOk
        /\ Len(unpacked) = Len(ValidEntries(Opened.entries))
        /\ \A i \in 1..Len(unpacked) : unpacked[i].path = ValidEntries(Opened.entries)[i].path

\* C19: a whole archive in the compression its suffix names, with every
\* entry readable, is extracted without panic or error, for each suffix
\* from_url takes for an archive.
C19_EverySuffixUnpacks ==
    ( /\ LoopEnded
      /\ FromUrlRules(aurl) = Returned(Tar(aurl))
      /\ Opened.format = FormatOf(ArchiveName)
      /\ Opened.complete
      /\ \A i \in 1..Len(Opened.entries) : Opened.entries[i].valid )
    => ares = ArchiveOk

-----------------------------------------------------------------------------
(* Further claims about the pipeline                                        *)

\* C18: for a Local entry, the steps that acquire the source -- discard
\* (clean_cache_dir), checkout and update -- leave the directory at the
\* entry's path in place, as it was.
C18_LocalSourceUntouched ==
    [][ (entry.kind = "Local" /\ pc \in {"clean_cache_dir", "checkout", "update"})
        => (fs'.exists = fs.exists /\ fs'.by = fs.by) ]_vars

Started(cmd) == \E i \in 1..Len(procs) : procs[i] = cmd

\* C20: in one invocation, update speaks the protocol checkout used: no
\* svn update after a git clone, no git pull after an svn co.
C20_SameProtocol ==
    /\ ~(Started("git clone") /\ Started("svn update"))
    /\ ~(Started("svn co") /\ Started("git pull"))

====
